---- MODULE Spec2Model ----
(***************************************************************************)
(* Timetable enumeration and ranking of the schedule builder               *)
(* (src/streamlit_app_advanced.py).  The session state holds the pool of   *)
(* registered class sections, the sorted list of scored schedule options   *)
(* and the browsing cursor.  A generation run filters the pool by the      *)
(* selected courses, enumerates every subset of size max..1, rejects the   *)
(* subsets with a time conflict or a repeated course, scores the rest and  *)
(* stores the list sorted by score.                                        *)
(*                                                                         *)
(* A stored time string "HH:MM" is the pair <<HH, MM>>; parse_time turns   *)
(* it into a time of day, represented by its minute of the day, which      *)
(* orders exactly as datetime.time orders (hour, minute).  Pass-through    *)
(* fields of a section (class_room, crn, instructor, seats) are not read   *)
(* by the enumeration and are left out of the records; the CRN that        *)
(* apply_schedule_to_banner reads is looked up by crn(cls).                *)
(*                                                                         *)
(* Spec is the session from its start: classes are registered and deleted  *)
(* and schedules are generated with any selection.  SpecBrowser is a       *)
(* session after an import: schedules are generated with any selection and *)
(* the stored options are browsed.  SpecEngine is the enumeration on its   *)
(* own: the pool and the selections are given, and the run is made and     *)
(* repeated.  SpecCheck is a session with lines typed into the combination *)
(* text area: the options are generated and the typed combination is       *)
(* checked.  SpecScreens is a new browser session going through the        *)
(* welcome dialog, the authentication screen and the term selection to the *)
(* tabs and back.  SpecApply is one call of apply_schedule_to_banner,      *)
(* request by request, with every outcome of every request.                *)
(***************************************************************************)
EXTENDS Integers, Sequences, FiniteSets

\* ------------------------------------------------------------------ bounds

\* most sections registered one by one
MaxPool == 2

\* most courses the user picks in the course multiselect
MaxMandatory == 2

\* the user picks free days among the first MaxFreeDays week days
MaxFreeDays == 2

\* lines typed into the combination text area
MaxLines == 3

\* ------------------------------------------------- constants of the program

\* cap on the number of classes in one schedule: min(6, len(filtered_classes))
MaxClasses == 6

\* max_selections of the course multiselect
MaxSelections == 6

\* score weights
SizeWeight == 1000

FreeDaysBonus == 500

MandatoryWeight == 200

AllMandatoryBonus == 300

\* options of the free-day multiselect
days_of_week == <<"Monday", "Tuesday", "Wednesday", "Thursday", "Friday">>

\* ------------------------------------------------------- sections on offer

Meeting(day, sh, sm, eh, em) ==
    [day |-> day, start_time |-> <<sh, sm>>, end_time |-> <<eh, em>>]

Section(name, group, schedule) ==
    [name |-> name, group |-> group, schedule |-> schedule]

\* Sections the user registers one at a time.  The first two overlap and are
\* the same course; the fourth starts exactly when the first ends, overlaps the
\* second, and is the same course as the third without overlapping it; the
\* fifth overlaps none of them.  The sixth was typed in with an end time equal
\* to the start time on one day and before the start time on the other: the
\* entry form takes any two times.
OfferedSections ==
    << Section("Cs101", "A", << Meeting("Monday", 9, 0, 10, 0) >>),
       Section("Cs101", "B", << Meeting("Monday", 9, 30, 10, 30) >>),
       Section("Cs102", "A", << Meeting("Tuesday", 9, 0, 10, 0) >>),
       Section("Cs102", "B", << Meeting("Monday", 10, 0, 11, 0),
                                Meeting("Tuesday", 10, 0, 11, 0) >>),
       Section("Cs103", "A", << Meeting("Wednesday", 9, 0, 10, 0) >>),
       Section("Cs104", "A", << Meeting("Thursday", 10, 0, 10, 0),
                                Meeting("Friday", 11, 0, 10, 0) >>) >>

Catalogue == { OfferedSections[i] : i \in 1..Len(OfferedSections) }

\* A pool imported in one go: seven sections of seven courses, none of which
\* overlaps another (back-to-back meetings spread over three days).
SevenCourses ==
    << Section("Cprg303", "A", << Meeting("Monday", 8, 0, 9, 0) >>),
       Section("Cprg305", "A", << Meeting("Tuesday", 8, 0, 9, 0) >>),
       Section("Cpsy301", "A", << Meeting("Tuesday", 9, 0, 10, 0) >>),
       Section("Intp302", "A", << Meeting("Monday", 9, 0, 10, 30) >>),
       Section("Itsc320", "A", << Meeting("Wednesday", 8, 0, 9, 0) >>),
       Section("Math237", "A", << Meeting("Monday", 10, 30, 11, 30),
                                  Meeting("Wednesday", 9, 0, 10, 0) >>),
       Section("Phil241", "A", << Meeting("Tuesday", 10, 0, 11, 0) >>) >>

\* the pools a batch import leaves in an empty session: the first three
\* offered sections, all of them, or the seven courses
ImportedPools ==
    { SubSeq(OfferedSections, 1, 3), OfferedSections, SevenCourses }

\* the sections typed in by hand in a session: a class on Monday and the
\* class with the mistyped times
HandEntered == { OfferedSections[1], OfferedSections[6] }

\* the pools whose options are browsed: the worked example, and two sections
\* of one course
BrowsedPools == { SubSeq(OfferedSections, 1, 3), SubSeq(OfferedSections, 3, 4) }

\* the pools whose combinations are checked by hand: the worked example, the
\* sections of two courses, and a pool in which one section was registered
\* twice
CheckedPools ==
    { SubSeq(OfferedSections, 1, 3), SubSeq(OfferedSections, 1, 4),
      << OfferedSections[1], OfferedSections[1], OfferedSections[2] >> }

\* the pools built by registering up to n offered sections one by one
PoolsUpTo(n) == UNION { [1..k -> Catalogue] : k \in 0..n }

\* ------------------------------------------------------------ pure helpers

Max(a, b) == IF a >= b THEN a ELSE b

Min(a, b) == IF a <= b THEN a ELSE b

Range(s) == { s[i] : i \in 1..Len(s) }

parse_time(time_str) == time_str[1] * 60 + time_str[2]

\* variant: a meeting that starts when the other ends counts as overlapping
times_overlap_inclusive(start1, end1, start2, end2) ==
    Max(start1, start2) <= Min(end1, end2)

\* variant: only the first meeting's start is compared with the second's end
times_overlap_one_sided(start1, end1, start2, end2) ==
    start1 < end2

times_overlap(start1, end1, start2, end2) ==
    Max(start1, start2) < Min(end1, end2)

\* variant: a class is never in conflict with itself
has_conflict_distinct(class1, class2) ==
    /\ class1 # class2
    /\ \E i \in 1..Len(class1.schedule) :
           \E j \in 1..Len(class2.schedule) :
               /\ class1.schedule[i].day = class2.schedule[j].day
               /\ times_overlap(class1.schedule[i].start_time,
                                class1.schedule[i].end_time,
                                class2.schedule[j].start_time,
                                class2.schedule[j].end_time)

has_conflict(class1, class2) ==
    \E i \in 1..Len(class1.schedule) :
        \E j \in 1..Len(class2.schedule) :
            /\ class1.schedule[i].day = class2.schedule[j].day
            /\ times_overlap(class1.schedule[i].start_time,
                             class1.schedule[i].end_time,
                             class2.schedule[j].start_time,
                             class2.schedule[j].end_time)

\* variant: the repeated-course check is skipped
has_unique_classes_skipped(combination) == TRUE

has_unique_classes(combination) ==
    Len(combination) = Cardinality({ combination[i].name : i \in 1..Len(combination) })

has_free_days(combination, free) ==
    LET scheduled_days ==
            UNION { { combination[i].schedule[j].day :
                          j \in 1..Len(combination[i].schedule) } :
                    i \in 1..Len(combination) }
    IN \A day \in free : day \notin scheduled_days

\* parsed_classes: every stored class with its time strings parsed
ParseClass(cls) ==
    [name |-> cls.name, group |-> cls.group,
     schedule |-> [i \in 1..Len(cls.schedule) |->
                      [day |-> cls.schedule[i].day,
                       start_time |-> parse_time(cls.schedule[i].start_time),
                       end_time |-> parse_time(cls.schedule[i].end_time)]]]

parsed_classes(classes) == [i \in 1..Len(classes) |-> ParseClass(classes[i])]

ClassNames(classes) == { classes[i].name : i \in 1..Len(classes) }

\* variant: the pool is not narrowed to the selected courses
FilterClasses_all(parsed, mandatory) == parsed

\* only the classes of the selected courses; all of them when nothing is selected
FilterClasses(parsed, mandatory) ==
    IF mandatory # {}
    THEN SelectSeq(parsed, LAMBDA cls : cls.name \in mandatory)
    ELSE parsed

\* ------------------------------------------- itertools.combinations(pool, r)

\* the first index tuple: (1, 2, ..., r)
FirstIndices(r) == [i \in 1..r |-> i]

\* the index tuple after ind, or <<>> when ind is the last one: the rightmost
\* index that has not reached its final value is advanced and the ones to its
\* right restart just after it
NextIndices(ind, n, r) ==
    LET movable == { i \in 1..r : ind[i] # i + n - r }
    IN IF movable = {}
       THEN << >>
       ELSE LET i == CHOOSE m \in movable : \A o \in movable : o <= m
            IN [j \in 1..r |-> IF j < i THEN ind[j] ELSE ind[i] + 1 + (j - i)]

RECURSIVE CombinationsFrom(_, _, _)
CombinationsFrom(ind, n, r) ==
    IF ind = << >>
    THEN << >>
    ELSE << ind >> \o CombinationsFrom(NextIndices(ind, n, r), n, r)

\* the r-element index tuples of a pool of n elements, in the order yielded
Combinations(n, r) ==
    IF r > n THEN << >> ELSE CombinationsFrom(FirstIndices(r), n, r)

\* the tuple of pool elements an index tuple stands for
Combo(pool, ind) == [i \in 1..Len(ind) |-> pool[ind[i]]]

\* ---------------------------------------------------------------- one combo

\* for cls1, cls2 in combinations(combo, 2): if has_conflict(cls1, cls2)
has_time_conflict(combo) ==
    \E a \in 1..Len(combo) :
        \E b \in (a + 1)..Len(combo) : has_conflict(combo[a], combo[b])

\* variant: the pair loop stops at the first conflicting pair
conflicting_pairs_first(combo) ==
    LET pairs == SelectSeq(Combinations(Len(combo), 2),
                           LAMBDA p : has_conflict(combo[p[1]], combo[p[2]]))
    IN IF pairs = << >> THEN << >> ELSE << pairs[1] >>

\* for cls1, cls2 in combinations(combo, 2): if has_conflict(cls1, cls2) --
\* the pairs of positions for which an entry is appended, in loop order
conflicting_pairs(combo) ==
    SelectSeq(Combinations(Len(combo), 2),
              LAMBDA p : has_conflict(combo[p[1]], combo[p[2]]))

\* the text of a conflict entry: the names and groups of the two classes
ConflictText(cls1, cls2) == << cls1.name, cls1.group, cls2.name, cls2.group >>

\* conflict_info of one candidate; indices is the identity of the candidate
\* and pair the two positions in it the entry was appended for
conflict_info(filtered, ind) ==
    LET combo == Combo(filtered, ind)
        pairs == conflicting_pairs(combo)
    IN [i \in 1..Len(pairs) |->
           [text |-> ConflictText(combo[pairs[i][1]], combo[pairs[i][2]]),
            indices |-> ind,
            pair |-> pairs[i]]]

RECURSIVE Flatten(_)
Flatten(lists) ==
    IF lists = << >> THEN << >> ELSE Head(lists) \o Flatten(Tail(lists))

\* conflict_details.extend(conflict_info) for the candidates of one class
\* count that have a time conflict, in the order they are yielded
ConflictDetailsOfSize(filtered, num_classes) ==
    LET rejected == SelectSeq(Combinations(Len(filtered), num_classes),
                              LAMBDA ind : has_time_conflict(Combo(filtered, ind)))
    IN Flatten([i \in 1..Len(rejected) |-> conflict_info(filtered, rejected[i])])

\* variant: the per-class bonus is given once for the whole combination
mandatory_count_flag(combo, mandatory) ==
    IF \E i \in 1..Len(combo) : combo[i].name \in mandatory THEN 1 ELSE 0

mandatory_count(combo, mandatory) ==
    Cardinality({ i \in 1..Len(combo) : combo[i].name \in mandatory })

has_all_mandatory(combo, mandatory) ==
    \A mandatory_class \in mandatory :
        \E i \in 1..Len(combo) : combo[i].name = mandatory_class

\* variant: the all-mandatory bonus is withheld when no course is selected
Score_no_vacuous_bonus(combo, num_classes, mandatory, free) ==
    num_classes * SizeWeight
    + (IF has_free_days(combo, free) THEN FreeDaysBonus ELSE 0)
    + mandatory_count(combo, mandatory) * MandatoryWeight
    + (IF mandatory # {} /\ has_all_mandatory(combo, mandatory)
       THEN AllMandatoryBonus ELSE 0)

\* variant: a class is worth less than the free-day bonus
Score_light_classes(combo, num_classes, mandatory, free) ==
    num_classes * 100
    + (IF has_free_days(combo, free) THEN FreeDaysBonus ELSE 0)
    + mandatory_count(combo, mandatory) * MandatoryWeight
    + (IF has_all_mandatory(combo, mandatory) THEN AllMandatoryBonus ELSE 0)

Score(combo, num_classes, mandatory, free) ==
    num_classes * SizeWeight
    + (IF has_free_days(combo, free) THEN FreeDaysBonus ELSE 0)
    + mandatory_count(combo, mandatory) * MandatoryWeight
    + (IF has_all_mandatory(combo, mandatory) THEN AllMandatoryBonus ELSE 0)

\* variant: the two flags change places in the tuple
ScoredCombination_swapped(filtered, ind, mandatory, free) ==
    LET combo == Combo(filtered, ind)
    IN [score |-> Score(combo, Len(ind), mandatory, free),
        num_classes |-> Len(ind),
        combo |-> combo,
        has_all_mandatory |-> has_free_days(combo, free),
        respects_free_days |-> has_all_mandatory(combo, mandatory),
        indices |-> ind]

\* the tuple appended to all_combinations_with_score; indices is the identity
\* of the tuple's members (their positions in filtered_classes)
ScoredCombination(filtered, ind, mandatory, free) ==
    LET combo == Combo(filtered, ind)
    IN [score |-> Score(combo, Len(ind), mandatory, free),
        num_classes |-> Len(ind),
        combo |-> combo,
        has_all_mandatory |-> has_all_mandatory(combo, mandatory),
        respects_free_days |-> has_free_days(combo, free),
        indices |-> ind]

\* a combination is kept when it has no time conflict and no repeated course
IsKept(combo) == ~has_time_conflict(combo) /\ has_unique_classes(combo)

\* the results of one class count, in the order the combinations are yielded
CombinationsOfSize(filtered, num_classes, mandatory, free) ==
    LET kept == SelectSeq(Combinations(Len(filtered), num_classes),
                          LAMBDA ind : IsKept(Combo(filtered, ind)))
    IN [i \in 1..Len(kept) |->
           ScoredCombination(filtered, kept[i], mandatory, free)]

\* variant: no cap on the class count
max_classes_uncapped(filtered) == Len(filtered)

max_classes(filtered) == Min(MaxClasses, Len(filtered))

\* variant: single classes are not offered
min_classes_two == 1 + 1

min_classes == 1

\* variant: the class counts are visited from the smallest up
RECURSIVE CombinationsDownFrom_ascending(_, _, _, _)
CombinationsDownFrom_ascending(filtered, num_classes, mandatory, free) ==
    IF num_classes < min_classes
    THEN << >>
    ELSE CombinationsDownFrom_ascending(filtered, num_classes - 1,
                                        mandatory, free)
         \o CombinationsOfSize(filtered, num_classes, mandatory, free)

\* for num_classes in range(max_classes, min_classes - 1, -1)
RECURSIVE CombinationsDownFrom(_, _, _, _)
CombinationsDownFrom(filtered, num_classes, mandatory, free) ==
    IF num_classes < min_classes
    THEN << >>
    ELSE CombinationsOfSize(filtered, num_classes, mandatory, free)
         \o CombinationsDownFrom(filtered, num_classes - 1, mandatory, free)

RECURSIVE ConflictDetailsDownFrom(_, _)
ConflictDetailsDownFrom(filtered, num_classes) ==
    IF num_classes < min_classes
    THEN << >>
    ELSE ConflictDetailsOfSize(filtered, num_classes)
         \o ConflictDetailsDownFrom(filtered, num_classes - 1)

\* ------------------------------------ list.sort(key=score, reverse=True)

\* variant: elements of equal score come out in reverse order, as when the
\* list is sorted ascending and then reversed
WithScore_reversed(list, score) ==
    LET same == SelectSeq(list, LAMBDA x : x.score = score)
    IN [i \in 1..Len(same) |-> same[Len(same) + 1 - i]]

\* The elements of one score, in the order they were appended: the sort is
\* stable, so elements of equal score keep their relative order.
WithScore(list, score) == SelectSeq(list, LAMBDA x : x.score = score)

\* highest score first
RECURSIVE SortScores(_, _)
SortScores(list, scores) ==
    IF scores = {}
    THEN << >>
    ELSE LET top == CHOOSE s \in scores : \A o \in scores : o <= s
         IN WithScore(list, top) \o SortScores(list, scores \ {top})

\* variant: the list is stored as enumerated
SortByScore_skipped(list) == list

SortByScore(list) == SortScores(list, { list[i].score : i \in 1..Len(list) })

\* -------------------------------------------------------------------- state

VARIABLES
    classes_data,            \* st.session_state.classes_data[id]
    all_schedule_options,    \* st.session_state["all_schedule_options"]
    current_schedule_index,  \* st.session_state["current_schedule_index"]
    filtered_classes,        \* the narrowed pool of the last run
    mandatory_classes,       \* the course selection (of the last run, if any)
    free_days,               \* the free-day selection (of the last run, if any)
    repeated,                \* the last run had the inputs of the run before it
    all_combinations_with_score, \* the list of the last run before its sort
    conflict_details,        \* conflict_details of the last run
    message,                 \* what the last press of Generate reported
    last_event,              \* what the user did last, and the cursor then
    test_combo_text,         \* the lines typed into the combination text area
    test_classes,            \* test_classes of the last combination check
    conflicts_found,         \* conflicts_found of the last combination check
    welcome_seen,            \* st.session_state.welcome_seen
    auth_checked,            \* st.session_state.auth_checked
    term_selected,           \* st.session_state.term_selected
    banner_credentials,      \* st.session_state.banner_credentials
    selected_term,           \* st.session_state.selected_term
    banner_cookies,          \* st.session_state.banner_cookies
    banner_token,            \* st.session_state.banner_token
    parse_succeeded,         \* a pasted header text has been parsed with success
    registration_models,     \* the CRNs of st.session_state.registration_models
    schedule_combo,          \* the combination being applied to Banner
    step,                    \* where apply_schedule_to_banner stands
    position,                \* the element its current loop is at
    failed_drops,
    dropped_count,
    registered_count,
    failed_classes,
    retry_dropped,
    still_failed,
    requests,                \* the Banner requests sent so far, in order
    returned                 \* what apply_schedule_to_banner returned

\* what one generation run records
run == << filtered_classes, mandatory_classes, free_days, repeated,
          all_combinations_with_score, conflict_details, message >>

\* the combination check
check == << test_combo_text, test_classes, conflicts_found >>

\* the flags that decide which screen is drawn
screens == << welcome_seen, auth_checked, term_selected, banner_credentials,
              selected_term, banner_cookies, banner_token, parse_succeeded >>

\* the classes, the options and the combination check
timetable == << classes_data, all_schedule_options, current_schedule_index,
               run, check >>

\* one call of apply_schedule_to_banner
banner == << registration_models, schedule_combo, step, position,
             failed_drops, dropped_count, registered_count, failed_classes,
             retry_dropped, still_failed, requests, returned >>

vars == << classes_data, all_schedule_options, current_schedule_index, run,
           last_event, check, screens, banner >>

FreeDayChoices ==
    SUBSET { days_of_week[i] : i \in 1..Min(MaxFreeDays, Len(days_of_week)) }

MandatoryChoices(classes) ==
    { m \in SUBSET ClassNames(classes) :
          Cardinality(m) <= Min(MaxSelections, MaxMandatory) }

\* session_state holds no such key, or holds None
None == [none |-> TRUE]

\* session_state has no selected_term, no banner_token
NoTerm == "no term"

NoToken == "no token"

\* the term of "Skip Authentication" and "Continue with Default Term"
DefaultTerm == "202530"

\* main() draws the welcome dialog, the authentication screen, the term
\* selection or the title, sidebar and tabs, and returns after the first
\* three
Screen ==
    IF ~welcome_seen THEN "Welcome"
    ELSE IF ~auth_checked THEN "Authentication"
    ELSE IF ~term_selected THEN "Term selection"
    ELSE "Main tabs"

\* the user presses a button (number: the number typed into "Go to schedule #",
\* 0 for the other buttons); index is the cursor at that moment
Event(button, number) ==
    last_event' = [button |-> button, number |-> number,
                   index |-> current_schedule_index]

\* a button of the tabs is pressed: the tabs are drawn, and the press leaves
\* the combination check, the screen flags and Banner alone
Press(button, number) ==
    /\ Screen = "Main tabs"
    /\ Event(button, number)
    /\ UNCHANGED << check, screens, banner >>

NoEvent == [button |-> "None", number |-> 0, index |-> 0]

\* no generation run yet
NoRun ==
    /\ filtered_classes = << >>
    /\ repeated = FALSE
    /\ all_combinations_with_score = << >>
    /\ conflict_details = << >>
    /\ message = "None"

\* nothing typed into the combination text area
NoCheck ==
    /\ test_combo_text = << >>
    /\ test_classes = << >>
    /\ conflicts_found = << >>

\* the tabs after "Got it" and "Skip Authentication"
TabsOpen ==
    /\ welcome_seen = TRUE
    /\ auth_checked = TRUE
    /\ term_selected = TRUE
    /\ banner_credentials = None
    /\ selected_term = DefaultTerm
    /\ banner_cookies = None
    /\ banner_token = NoToken
    /\ parse_succeeded = FALSE

\* apply_schedule_to_banner is not running
NoCall ==
    /\ schedule_combo = << >>
    /\ step = "Idle"
    /\ position = 0
    /\ failed_drops = << >>
    /\ dropped_count = 0
    /\ registered_count = 0
    /\ failed_classes = << >>
    /\ retry_dropped = 0
    /\ still_failed = << >>
    /\ requests = << >>
    /\ returned = "None"

Init ==
    /\ classes_data = << >>
    /\ all_schedule_options = << >>
    /\ current_schedule_index = 0
    /\ mandatory_classes = {}
    /\ free_days = {}
    /\ NoRun
    /\ last_event = NoEvent
    /\ NoCheck
    /\ TabsOpen
    /\ registration_models = << >>
    /\ NoCall

\* The enumeration on its own: a session whose pool was registered or
\* imported and in which the courses and free days are selected, before the
\* first run.
InitEngine ==
    /\ classes_data \in PoolsUpTo(MaxPool) \cup ImportedPools
    /\ all_schedule_options = << >>
    /\ current_schedule_index = 0
    /\ mandatory_classes \in MandatoryChoices(classes_data)
    /\ free_days \in FreeDayChoices
    /\ NoRun
    /\ last_event = NoEvent
    /\ NoCheck
    /\ TabsOpen
    /\ registration_models = << >>
    /\ NoCall

\* "Register class": save_class_to_db appends the new class to the pool
AddClass(class_data) ==
    /\ Len(classes_data) < MaxPool
    /\ classes_data' = Append(classes_data, class_data)
    /\ Press("Register class", 0)
    /\ UNCHANGED << all_schedule_options, current_schedule_index, run >>

\* the label of a class in the delete multiselect, split again into name and
\* group
ClassLabels(classes) ==
    { << classes[i].name, classes[i].group >> : i \in 1..Len(classes) }

\* remove_class_from_db: every class of that name and group leaves the pool
remove_class_from_db(classes, class_name, group) ==
    SelectSeq(classes, LAMBDA cls : ~(cls.name = class_name /\ cls.group = group))

RECURSIVE RemoveAll(_, _)
RemoveAll(classes, selected) ==
    IF selected = {}
    THEN classes
    ELSE LET label == CHOOSE l \in selected : TRUE
         IN RemoveAll(remove_class_from_db(classes, label[1], label[2]),
                      selected \ {label})

\* "Delete classes" with the selected labels
DeleteClasses(selected_classes) ==
    /\ classes_data # << >>
    /\ selected_classes \subseteq ClassLabels(classes_data)
    /\ selected_classes # {}
    /\ classes_data' = RemoveAll(classes_data, selected_classes)
    /\ Press("Delete classes", 0)
    /\ UNCHANGED << all_schedule_options, current_schedule_index, run >>

\* variant: the run appends to the options of the previous run
NewList_kept == all_schedule_options

\* all_combinations_with_score = []
NewList == << >>

\* variant: the cursor of the previous options is kept
FirstIndex_kept == current_schedule_index

\* st.session_state["current_schedule_index"] = 0
FirstIndex == 0

\* The Schedule Creator tab with "Generate ALL Schedule Options" and the
\* current selections.  With no class registered the tab stops at its warning,
\* before the selections and the button.
Generate(mandatory, free) ==
    /\ mandatory \in MandatoryChoices(classes_data)
    /\ Press("Generate", 0)
    /\ IF classes_data = << >>
       THEN UNCHANGED << classes_data, all_schedule_options,
                         current_schedule_index, run >>
       ELSE LET parsed == parsed_classes(classes_data)
                filtered == FilterClasses(parsed, mandatory)
                found == NewList \o CombinationsDownFrom(filtered,
                                                         max_classes(filtered),
                                                         mandatory, free)
            IN /\ UNCHANGED classes_data
               /\ filtered_classes' = filtered
               /\ mandatory_classes' = mandatory
               /\ free_days' = free
               /\ repeated' = /\ all_schedule_options # << >>
                              /\ filtered = filtered_classes
                              /\ mandatory = mandatory_classes
                              /\ free = free_days
               /\ IF filtered = << >>
                  THEN /\ message' = "Please select at least one class"
                       /\ UNCHANGED << all_schedule_options,
                                       current_schedule_index,
                                       all_combinations_with_score,
                                       conflict_details >>
                  ELSE /\ all_combinations_with_score' = found
                       /\ conflict_details' =
                              ConflictDetailsDownFrom(filtered,
                                                      max_classes(filtered))
                       /\ IF found = << >>
                          THEN /\ message' = "No valid schedules found"
                               /\ UNCHANGED << all_schedule_options,
                                               current_schedule_index >>
                          ELSE /\ message' = "Generated"
                               /\ all_schedule_options' = SortByScore(found)
                               /\ current_schedule_index' = FirstIndex

\* --------------------------------------- "Check This Specific Combination"

\* a line naming a section nobody registered, and a line of one word
UnknownLine == << "Cs999", "Z" >>

OneWord == << "Cs101" >>

\* What can stand in the text area: up to MaxLines non-blank lines, each
\* already split at its last space into class name and section (a line of one
\* word has no second part).
TypedLines(classes) ==
    UNION { [1..k -> ClassLabels(classes) \cup { UnknownLine, OneWord }] :
                k \in 0..MaxLines }

\* next((cls for cls in parsed_classes if name and group match), None), as
\* the list of what is appended to test_classes for one line
matching_class(parsed, parts) ==
    IF Len(parts) # 2
    THEN << >>
    ELSE LET matches == SelectSeq(parsed,
                                  LAMBDA cls : /\ cls.name = parts[1]
                                               /\ cls.group = parts[2])
         IN IF matches = << >> THEN << >> ELSE << matches[1] >>

TestClasses(parsed, lines) ==
    Flatten([i \in 1..Len(lines) |-> matching_class(parsed, lines[i])])

\* conflicts_found of the classes to test; pair is the two positions in
\* test_classes the entry was appended for
ConflictsFound(classes) ==
    LET pairs == conflicting_pairs(classes)
    IN [i \in 1..Len(pairs) |->
           [text |-> ConflictText(classes[pairs[i][1]], classes[pairs[i][2]]),
            pair |-> pairs[i]]]

\* the button under the text area; with a blank text area nothing is checked
CheckCombination ==
    /\ Screen = "Main tabs"
    /\ classes_data # << >>
    /\ Event("Check This Specific Combination", 0)
    /\ IF test_combo_text = << >>
       THEN UNCHANGED << test_classes, conflicts_found >>
       ELSE LET found == TestClasses(parsed_classes(classes_data),
                                     test_combo_text)
            IN /\ test_classes' = found
               /\ conflicts_found' = IF found = << >>
                                     THEN << >>
                                     ELSE ConflictsFound(found)
    /\ UNCHANGED << classes_data, all_schedule_options,
                    current_schedule_index, run, test_combo_text, screens,
                    banner >>

\* ------------------------------------------------------ browsing the options

\* the browser is drawn when the pool is not empty and options are stored
BrowserShown == classes_data # << >> /\ all_schedule_options # << >>

\* variant: the option under the cursor is read whether or not options are
\* stored
Displayed_unguarded ==
    IF classes_data = << >> THEN "NoClassesWarning"
    ELSE IF current_schedule_index \in 0..(Len(all_schedule_options) - 1)
         THEN "Schedule"
         ELSE "IndexError"

\* what the tab draws below the button: the warning when no class is
\* registered, nothing when no options are stored, else the option under the
\* cursor; all_combos[current_idx] raises IndexError outside the list
Displayed ==
    IF classes_data = << >> THEN "NoClassesWarning"
    ELSE IF all_schedule_options = << >> THEN "Nothing"
    ELSE IF current_schedule_index \in 0..(Len(all_schedule_options) - 1)
         THEN "Schedule"
         ELSE "IndexError"

\* all_combos[current_idx][2], the combination under the cursor
current_combo == all_schedule_options[current_schedule_index + 1].combo

\* get_unique_time_slots: (start_time, end_time) of every session of every
\* class handed in, as a set (the list returned is the set ordered by start)
RECURSIVE get_unique_time_slots(_)
get_unique_time_slots(classes) ==
    IF classes = << >>
    THEN {}
    ELSE { << Head(classes).schedule[j].start_time,
              Head(classes).schedule[j].end_time >> :
               j \in 1..Len(Head(classes).schedule) }
         \cup get_unique_time_slots(Tail(classes))

\* variant: the rows are those of the combination under the cursor
time_slots_of_combo == get_unique_time_slots(current_combo)

\* time_slots = get_unique_time_slots(parsed_classes), the rows of the
\* timetable drawn for the combination under the cursor
time_slots == get_unique_time_slots(parsed_classes(classes_data))

\* variant: the options live only in the run that generated them and are gone
\* after the rerun
Browse_forgetting(index) ==
    /\ current_schedule_index' = index
    /\ all_schedule_options' = << >>
    /\ UNCHANGED << classes_data, run >>

\* st.session_state["current_schedule_index"] = index; st.rerun()
Browse(index) ==
    /\ current_schedule_index' = index
    /\ UNCHANGED << classes_data, all_schedule_options, run >>

\* a press that sets nothing
Stay ==
    UNCHANGED << classes_data, all_schedule_options, current_schedule_index,
                 run >>

\* variant: Previous on the first option wraps around to the last one
Previous_wrapping ==
    /\ BrowserShown
    /\ Press("Previous", 0)
    /\ IF current_schedule_index = 0
       THEN Browse(Len(all_schedule_options) - 1)
       ELSE Browse(current_schedule_index - 1)

\* "Previous", disabled on the first option
Previous ==
    /\ BrowserShown
    /\ Press("Previous", 0)
    /\ IF current_schedule_index = 0
       THEN Stay
       ELSE Browse(Max(0, current_schedule_index - 1))

\* variant: neither disabled nor clamped on the last option
NextSchedule_unbounded ==
    /\ BrowserShown
    /\ Press("Next", 0)
    /\ Browse(current_schedule_index + 1)

\* "Next", disabled on the last option
NextSchedule ==
    /\ BrowserShown
    /\ Press("Next", 0)
    /\ IF current_schedule_index >= Len(all_schedule_options) - 1
       THEN Stay
       ELSE Browse(Min(Len(all_schedule_options) - 1,
                       current_schedule_index + 1))

\* variant: the number typed is taken as the index itself
GoTo_one_based(number) ==
    /\ BrowserShown
    /\ Press("Go to", number)
    /\ IF number \in 1..Len(all_schedule_options)
       THEN IF number # current_schedule_index THEN Browse(number) ELSE Stay
       ELSE Stay

\* "Go to schedule #": the input takes a number from 1 to the number of
\* options and shows the cursor plus one until another number is typed; a
\* number outside is not taken
GoTo(number) ==
    /\ BrowserShown
    /\ Press("Go to", number)
    /\ IF number \in 1..Len(all_schedule_options)
       THEN LET new_idx == number - 1
            IN IF new_idx # current_schedule_index
               THEN Browse(new_idx)
               ELSE Stay
       ELSE Stay

First ==
    /\ BrowserShown
    /\ Press("First", 0)
    /\ Browse(0)

Last ==
    /\ BrowserShown
    /\ Press("Last", 0)
    /\ Browse(Len(all_schedule_options) - 1)

\* the numbers typed into "Go to schedule #": from one below the smallest to
\* one above the largest the input takes
TypedNumbers == 0..(Len(all_schedule_options) + 1)

Next ==
    \/ \E class_data \in HandEntered : AddClass(class_data)
    \/ \E selected_classes \in SUBSET ClassLabels(classes_data) :
           DeleteClasses(selected_classes)
    \/ \E mandatory \in SUBSET ClassNames(classes_data) :
           \E free \in FreeDayChoices : Generate(mandatory, free)

Spec == Init /\ [][Next]_vars

\* a session whose pool was imported, before the first run
InitBrowser ==
    /\ classes_data \in BrowsedPools
    /\ all_schedule_options = << >>
    /\ current_schedule_index = 0
    /\ mandatory_classes = {}
    /\ free_days = {}
    /\ NoRun
    /\ last_event = NoEvent
    /\ NoCheck
    /\ TabsOpen
    /\ registration_models = << >>
    /\ NoCall

NextBrowser ==
    \/ \E mandatory \in SUBSET ClassNames(classes_data) :
           \E free \in FreeDayChoices : Generate(mandatory, free)
    \/ Previous
    \/ NextSchedule
    \/ \E number \in TypedNumbers : GoTo(number)
    \/ First
    \/ Last

SpecBrowser == InitBrowser /\ [][NextBrowser]_vars

\* the button is pressed, and pressed again, with the selections unchanged
NextEngine == Generate(mandatory_classes, free_days)

SpecEngine == InitEngine /\ [][NextEngine]_vars

\* The conflict explanations: a session with a pool and some lines typed into
\* the combination text area, in which the options are generated and the
\* typed combination is checked.
InitCheck ==
    /\ classes_data \in CheckedPools
    /\ all_schedule_options = << >>
    /\ current_schedule_index = 0
    /\ mandatory_classes = {}
    /\ free_days = {}
    /\ NoRun
    /\ last_event = NoEvent
    /\ test_combo_text \in TypedLines(classes_data)
    /\ test_classes = << >>
    /\ conflicts_found = << >>
    /\ TabsOpen
    /\ registration_models = << >>
    /\ NoCall

NextCheck ==
    \/ Generate(mandatory_classes, free_days)
    \/ CheckCombination

SpecCheck == InitCheck /\ [][NextCheck]_vars

\* ---------------------------------------------------------------- screens

\* Header texts pasted into the authentication screen, as their lines; the
\* value of a Cookie line is its ";"-separated items, an item with "=" split
\* into name and value.
PastedHeaders ==
    { << >>,
      << [name |-> "Cookie",
          value |-> << << "JSESSIONID", "a1" >>, << "NLB", "b1" >> >>],
         [name |-> "X-Synchronizer-Token", value |-> "t1"],
         [name |-> "Host", value |-> "banner.sait.ca"] >>,
      << [name |-> "cookie", value |-> << << "JSESSIONID", "a2" >> >>],
         [name |-> "x-synchronizer-token", value |-> "t2"] >>,
      << [name |-> "Cookie", value |-> << << "JSESSIONID", "a1" >> >>],
         [name |-> "Host", value |-> "banner.sait.ca"] >>,
      << [name |-> "X-Synchronizer-Token", value |-> "t1"],
         [name |-> "Host", value |-> "banner.sait.ca"] >>,
      << [name |-> "Cookie", value |-> << << "JSESSIONID" >> >>],
         [name |-> "X-Synchronizer-Token", value |-> "t1"] >> }

\* re.IGNORECASE on the header names that occur
Spellings(header) ==
    IF header = "Cookie" THEN { "Cookie", "cookie" }
    ELSE IF header = "X-Synchronizer-Token"
         THEN { "X-Synchronizer-Token", "x-synchronizer-token" }
         ELSE { header }

\* re.search(header + r":\s*([^\n\r]+)", headers_text, re.IGNORECASE): the
\* lines that match, of which the first is taken
HeaderLines(headers_text, header) ==
    SelectSeq(headers_text, LAMBDA line : line.name \in Spellings(header))

\* result["cookies"]: the items of the Cookie line that have a "="; a later
\* item of the same name replaces an earlier one
CookiesOf(items) ==
    LET pairs == SelectSeq(items, LAMBDA item : Len(item) = 2)
        last(n) == CHOOSE i \in 1..Len(pairs) :
                       /\ pairs[i][1] = n
                       /\ \A j \in (i + 1)..Len(pairs) : pairs[j][1] # n
    IN [n \in { pairs[i][1] : i \in 1..Len(pairs) } |-> pairs[last(n)][2]]

\* variant: the parse succeeds as soon as the text is not blank
parse_request_headers_lenient(headers_text) ==
    [cookies |-> << >>, sync_token |-> NoToken, host |-> "no host",
     success |-> TRUE]

parse_request_headers(headers_text) ==
    LET cookie_match == HeaderLines(headers_text, "Cookie")
        sync_token_match == HeaderLines(headers_text, "X-Synchronizer-Token")
        host_match == HeaderLines(headers_text, "Host")
        cookies == IF cookie_match = << >>
                   THEN << >>
                   ELSE CookiesOf(cookie_match[1].value)
        sync_token == IF sync_token_match = << >>
                      THEN NoToken
                      ELSE sync_token_match[1].value
    IN [cookies |-> cookies,
        sync_token |-> sync_token,
        host |-> IF host_match = << >> THEN "no host" ELSE host_match[1].value,
        success |-> (DOMAIN cookies # {} /\ sync_token # NoToken)]

\* format_for_banner_api of a successful parse
format_for_banner_api(parsed_data) ==
    [cookies |-> parsed_data.cookies,
     sync_token |-> parsed_data.sync_token,
     base_url |-> parsed_data.host]

\* the terms Banner offers when the fetch succeeds
AvailableTerms == { "202530", "202610" }

\* "Got it, Let's Go!"
GotIt ==
    /\ Screen = "Welcome"
    /\ Event("Got it", 0)
    /\ welcome_seen' = TRUE
    /\ UNCHANGED << auth_checked, term_selected, banner_credentials,
                    selected_term, banner_cookies, banner_token,
                    parse_succeeded, timetable, banner >>

\* "Parse & Continue": a blank text is warned about, a text that does not
\* parse is reported, a text that parses gives the credentials and leads to
\* the term selection
ParseAndContinue(headers_input) ==
    /\ Screen = "Authentication"
    /\ Event("Parse & Continue", 0)
    /\ LET result == parse_request_headers(headers_input)
       IN IF headers_input # << >> /\ result.success
          THEN LET credentials == format_for_banner_api(result)
               IN /\ banner_credentials' = credentials
                  /\ banner_cookies' = credentials.cookies
                  /\ banner_token' = credentials.sync_token
                  /\ auth_checked' = TRUE
                  /\ term_selected' = FALSE
                  /\ parse_succeeded' = TRUE
          ELSE UNCHANGED << banner_credentials, banner_cookies, banner_token,
                            auth_checked, term_selected, parse_succeeded >>
    /\ UNCHANGED << welcome_seen, selected_term, timetable, banner >>

\* "Skip Authentication (Limited Features)"
SkipAuthentication ==
    /\ Screen = "Authentication"
    /\ Event("Skip Authentication", 0)
    /\ auth_checked' = TRUE
    /\ term_selected' = TRUE
    /\ banner_credentials' = None
    /\ selected_term' = DefaultTerm
    /\ UNCHANGED << welcome_seen, banner_cookies, banner_token,
                    parse_succeeded, timetable, banner >>

\* "Continue with Default Term", offered when no term could be fetched
ContinueWithDefault ==
    /\ Screen = "Term selection"
    /\ Event("Continue with Default Term", 0)
    /\ selected_term' = DefaultTerm
    /\ term_selected' = TRUE
    /\ UNCHANGED << welcome_seen, auth_checked, banner_credentials,
                    banner_cookies, banner_token, parse_succeeded,
                    timetable, banner >>

\* "Confirm Selection", offered when the terms were fetched, which takes
\* cookies and a token
ConfirmSelection(selected_code) ==
    /\ Screen = "Term selection"
    /\ banner_cookies # None
    /\ Event("Confirm Selection", 0)
    /\ selected_term' = selected_code
    /\ term_selected' = TRUE
    /\ UNCHANGED << welcome_seen, auth_checked, banner_credentials,
                    banner_cookies, banner_token, parse_succeeded,
                    timetable, banner >>

\* "Back to Authentication", offered with the fetched terms
BackToAuthentication ==
    /\ Screen = "Term selection"
    /\ banner_cookies # None
    /\ Event("Back to Authentication", 0)
    /\ auth_checked' = FALSE
    /\ term_selected' = FALSE
    /\ UNCHANGED << welcome_seen, banner_credentials, selected_term,
                    banner_cookies, banner_token, parse_succeeded,
                    timetable, banner >>

\* the sidebar of the tabs, with credentials: "Change Term"
ChangeTerm ==
    /\ Screen = "Main tabs"
    /\ banner_credentials # None
    /\ Event("Change Term", 0)
    /\ term_selected' = FALSE
    /\ UNCHANGED << welcome_seen, auth_checked, banner_credentials,
                    selected_term, banner_cookies, banner_token,
                    parse_succeeded, timetable, banner >>

\* the sidebar of the tabs, with credentials: "Update Tokens"
UpdateTokens ==
    /\ Screen = "Main tabs"
    /\ banner_credentials # None
    /\ Event("Update Tokens", 0)
    /\ auth_checked' = FALSE
    /\ term_selected' = FALSE
    /\ UNCHANGED << welcome_seen, banner_credentials, selected_term,
                    banner_cookies, banner_token, parse_succeeded,
                    timetable, banner >>

\* the sidebar of the tabs, without credentials: "Authenticate Now"
AuthenticateNow ==
    /\ Screen = "Main tabs"
    /\ banner_credentials = None
    /\ Event("Authenticate Now", 0)
    /\ auth_checked' = FALSE
    /\ UNCHANGED << welcome_seen, term_selected, banner_credentials,
                    selected_term, banner_cookies, banner_token,
                    parse_succeeded, timetable, banner >>

\* a new browser session: no key of session_state is set
InitScreens ==
    /\ classes_data = << >>
    /\ all_schedule_options = << >>
    /\ current_schedule_index = 0
    /\ mandatory_classes = {}
    /\ free_days = {}
    /\ NoRun
    /\ last_event = NoEvent
    /\ NoCheck
    /\ welcome_seen = FALSE
    /\ auth_checked = FALSE
    /\ term_selected = FALSE
    /\ banner_credentials = None
    /\ selected_term = NoTerm
    /\ banner_cookies = None
    /\ banner_token = NoToken
    /\ parse_succeeded = FALSE
    /\ registration_models = << >>
    /\ NoCall

\* the screens, and on the tabs the registering of a class and a run
NextScreens ==
    \/ GotIt
    \/ \E headers_input \in PastedHeaders : ParseAndContinue(headers_input)
    \/ SkipAuthentication
    \/ ContinueWithDefault
    \/ \E selected_code \in AvailableTerms : ConfirmSelection(selected_code)
    \/ BackToAuthentication
    \/ ChangeTerm
    \/ UpdateTokens
    \/ AuthenticateNow
    \/ AddClass(OfferedSections[1])
    \/ Generate({}, {})

SpecScreens == InitScreens /\ [][NextScreens]_vars

\* ------------------------------------------------- apply_schedule_to_banner

\* cls.get("crn", ""): the CRN the import from Banner stored with a section;
\* the class typed in by hand has none
crn(cls) ==
    IF cls.name = "Cs101" /\ cls.group = "A" THEN "30101"
    ELSE IF cls.name = "Cs101" /\ cls.group = "B" THEN "30102"
    ELSE IF cls.name = "Cs102" /\ cls.group = "A" THEN "30201"
    ELSE IF cls.name = "Cs102" /\ cls.group = "B" THEN "30202"
    ELSE IF cls.name = "Cs103" /\ cls.group = "A" THEN "30301"
    ELSE ""

\* the keys of registration_models when the schedule is applied: nothing
\* registered, one class, two classes
RegisteredBefore == { << >>, << "20001" >>, << "20001", "20002" >> }

\* the combinations applied: the class without a CRN alone, two and three
\* imported sections, an imported section with the class without a CRN
AppliedCombos ==
    LET offered == parsed_classes(OfferedSections)
    IN { << offered[6] >>,
         << offered[1], offered[3] >>,
         << offered[1], offered[6] >>,
         << offered[1], offered[3], offered[5] >> }

\* the label of a section in failed_classes
FailedLabel(cls) == << cls.name, cls.group >>

\* where the function stands after its loops: the drops, then the
\* registrations, then the retries of the drops in failed, then the summary
AfterRetry(pos, failed) ==
    IF pos <= Len(failed) THEN << "Retry", pos >> ELSE << "Summary", 0 >>

AfterRegister(pos, failed) ==
    IF pos <= Len(schedule_combo)
    THEN << "Register", pos >>
    ELSE AfterRetry(1, failed)

\* variant: the failed drops are retried before anything is registered
AfterDrop_retry_first(pos, failed) ==
    IF pos <= Len(registration_models)
    THEN << "Drop", pos >>
    ELSE IF failed # << >>
         THEN << "Retry", 1 >>
         ELSE AfterRegister(1, failed)

AfterDrop(pos, failed) ==
    IF pos <= Len(registration_models)
    THEN << "Drop", pos >>
    ELSE AfterRegister(1, failed)

\* a request sent to Banner and what came back
Sent(request, number, result) ==
    requests' = Append(requests, [request |-> request, crn |-> number,
                                  result |-> result])

\* "ADD SCHEDULE TO BANNER CART" with the confirmation ticked: the call begins
ApplySchedule ==
    /\ Screen = "Main tabs"
    /\ banner_credentials # None
    /\ step = "Idle"
    /\ Event("Add schedule to Banner cart", 0)
    /\ step' = AfterDrop(1, << >>)[1]
    /\ position' = AfterDrop(1, << >>)[2]
    /\ UNCHANGED << registration_models, schedule_combo, failed_drops,
                    dropped_count, registered_count, failed_classes,
                    retry_dropped, still_failed, requests, returned,
                    timetable, screens >>

\* drop_classes(term, [crn]) for the next registered class
DropClass(success) ==
    /\ step = "Drop"
    /\ LET number == registration_models[position]
           failed == IF success THEN failed_drops
                     ELSE Append(failed_drops, number)
       IN /\ Sent("drop_classes", number,
                  IF success THEN "success" ELSE "failed")
          /\ dropped_count' = IF success THEN dropped_count + 1
                              ELSE dropped_count
          /\ failed_drops' = failed
          /\ step' = AfterDrop(position + 1, failed)[1]
          /\ position' = AfterDrop(position + 1, failed)[2]
    /\ UNCHANGED << registration_models, schedule_combo, registered_count,
                    failed_classes, retry_dropped, still_failed, returned,
                    timetable, screens, last_event >>

\* the next class of the combination has no CRN
SkipClass ==
    /\ step = "Register"
    /\ crn(schedule_combo[position]) = ""
    /\ failed_classes' = Append(failed_classes,
                                FailedLabel(schedule_combo[position]))
    /\ step' = AfterRegister(position + 1, failed_drops)[1]
    /\ position' = AfterRegister(position + 1, failed_drops)[2]
    /\ UNCHANGED << registration_models, schedule_combo, failed_drops,
                    dropped_count, registered_count, retry_dropped,
                    still_failed, requests, returned, timetable, screens,
                    last_event >>

\* what add_class_to_cart can come back with: no success, success without a
\* model in the data, success with the model to submit
AddResults == { "failed", "no model", "added" }

\* add_class_to_cart(term, crn) for the next class of the combination
AddClassToCart(result) ==
    /\ step = "Register"
    /\ crn(schedule_combo[position]) # ""
    /\ Sent("add_class_to_cart", crn(schedule_combo[position]), result)
    /\ IF result = "added"
       THEN /\ step' = "Submit"
            /\ UNCHANGED << position, failed_classes >>
       ELSE /\ failed_classes' = Append(failed_classes,
                                        FailedLabel(schedule_combo[position]))
            /\ step' = AfterRegister(position + 1, failed_drops)[1]
            /\ position' = AfterRegister(position + 1, failed_drops)[2]
    /\ UNCHANGED << registration_models, schedule_combo, failed_drops,
                    dropped_count, registered_count, retry_dropped,
                    still_failed, returned, timetable, screens, last_event >>

\* submit_registration(term, [model]) for the class just added
SubmitRegistration(success) ==
    /\ step = "Submit"
    /\ Sent("submit_registration", crn(schedule_combo[position]),
            IF success THEN "success" ELSE "failed")
    /\ registered_count' = IF success THEN registered_count + 1
                           ELSE registered_count
    /\ failed_classes' = IF success THEN failed_classes
                         ELSE Append(failed_classes,
                                     FailedLabel(schedule_combo[position]))
    /\ step' = AfterRegister(position + 1, failed_drops)[1]
    /\ position' = AfterRegister(position + 1, failed_drops)[2]
    /\ UNCHANGED << registration_models, schedule_combo, failed_drops,
                    dropped_count, retry_dropped, still_failed, returned,
                    timetable, screens, last_event >>

\* drop_classes(term, [crn]) again for the next drop that failed
RetryDrop(success) ==
    /\ step = "Retry"
    /\ Sent("drop_classes", failed_drops[position],
            IF success THEN "success" ELSE "failed")
    /\ retry_dropped' = IF success THEN retry_dropped + 1 ELSE retry_dropped
    /\ still_failed' = IF success THEN still_failed
                       ELSE Append(still_failed, failed_drops[position])
    /\ step' = AfterRetry(position + 1, failed_drops)[1]
    /\ position' = AfterRetry(position + 1, failed_drops)[2]
    /\ UNCHANGED << registration_models, schedule_combo, failed_drops,
                    dropped_count, registered_count, failed_classes,
                    returned, timetable, screens, last_event >>

\* variant: True only when no class failed
ReturnValue_all == IF failed_classes = << >> THEN "True" ELSE "False"

\* if registered_count > 0: return True, else: return False
ReturnValue == IF registered_count > 0 THEN "True" ELSE "False"

\* the summary and the return
Return ==
    /\ step = "Summary"
    /\ returned' = ReturnValue
    /\ step' = "Returned"
    /\ UNCHANGED << registration_models, schedule_combo, position,
                    failed_drops, dropped_count, registered_count,
                    failed_classes, retry_dropped, still_failed, requests,
                    timetable, screens, last_event >>

BannerCredentials ==
    { format_for_banner_api(parse_request_headers(headers_text)) :
          headers_text \in { h \in PastedHeaders :
                                 parse_request_headers(h).success } }

\* An authenticated session with a term, some classes registered in Banner
\* and a combination displayed, before the schedule is applied.
InitApply ==
    /\ classes_data = OfferedSections
    /\ all_schedule_options = << >>
    /\ current_schedule_index = 0
    /\ mandatory_classes = {}
    /\ free_days = {}
    /\ NoRun
    /\ last_event = NoEvent
    /\ NoCheck
    /\ welcome_seen = TRUE
    /\ auth_checked = TRUE
    /\ term_selected = TRUE
    /\ banner_credentials \in BannerCredentials
    /\ selected_term \in AvailableTerms
    /\ banner_cookies = banner_credentials.cookies
    /\ banner_token = banner_credentials.sync_token
    /\ parse_succeeded = TRUE
    /\ registration_models \in RegisteredBefore
    /\ schedule_combo \in AppliedCombos
    /\ step = "Idle"
    /\ position = 0
    /\ failed_drops = << >>
    /\ dropped_count = 0
    /\ registered_count = 0
    /\ failed_classes = << >>
    /\ retry_dropped = 0
    /\ still_failed = << >>
    /\ requests = << >>
    /\ returned = "None"

NextApply ==
    \/ ApplySchedule
    \/ \E success \in BOOLEAN : DropClass(success)
    \/ SkipClass
    \/ \E result \in AddResults : AddClassToCart(result)
    \/ \E success \in BOOLEAN : SubmitRegistration(success)
    \/ \E success \in BOOLEAN : RetryDrop(success)
    \/ Return

SpecApply == InitApply /\ [][NextApply]_vars

\* ------------------------------------------------------------- properties

\* the meetings of the sections the last run enumerated
AllMeetings ==
    UNION { Range(filtered_classes[i].schedule) : i \in 1..Len(filtered_classes) }

\* two meetings share a day and a stretch of time
MeetingsIntersect(m1, m2) ==
    /\ m1.day = m2.day
    /\ m1.start_time < m1.end_time
    /\ m1.start_time < m2.end_time
    /\ m2.start_time < m1.end_time
    /\ m2.start_time < m2.end_time

Touching(m1, m2) == m1.day = m2.day /\ m1.end_time = m2.start_time

\* the options as a set of positions, and the entry at a position
Positions == 1..Len(all_schedule_options)

Option(k) == all_schedule_options[k]

\* the index sets of the subsets of a pool, of size 1..min(MaxClasses, |pool|),
\* in which no two sections conflict and no two share a course name
ValidIndexSets(pool) ==
    { S \in SUBSET (1..Len(pool)) :
          /\ Cardinality(S) >= 1
          /\ Cardinality(S) <= MaxClasses
          /\ \A a \in S :
                 \A b \in S :
                     a # b => /\ ~has_conflict(pool[a], pool[b])
                              /\ pool[a].name # pool[b].name }

\* M1, M2, M3 of the worked example, as the enumerator receives them
ExamplePool == parsed_classes(SubSeq(OfferedSections, 1, 3))

\* C2: the stored options are, exactly once each, the subsets of the
\* enumerated pool of size 1..min(6, |pool|) without a conflicting pair and
\* without a repeated course, and nothing else; for the pool M1, M2, M3 they
\* are {M1}, {M2}, {M3}, {M1,M3}, {M2,M3}.
C2_Completeness ==
    /\ { Range(Option(k).indices) : k \in Positions }
           = ValidIndexSets(filtered_classes)
    /\ Len(all_schedule_options) = Cardinality(ValidIndexSets(filtered_classes))
    /\ \A k \in Positions :
           /\ Option(k).combo = Combo(filtered_classes, Option(k).indices)
           /\ Cardinality(Range(Option(k).indices)) = Len(Option(k).indices)
    /\ filtered_classes = ExamplePool
           => { Range(Option(k).indices) : k \in Positions }
                  = { {1}, {2}, {3}, {1, 3}, {2, 3} }

\* a run on a pool of more than six sections, all compatible, stored options
\* of six classes
C2_Witness ==
    /\ Len(filtered_classes) > MaxClasses
    /\ Cardinality(ValidIndexSets(filtered_classes)) > 100
    /\ \E k \in Positions : Option(k).num_classes = MaxClasses

\* the days on which a combination meets, and its course names
DaysOf(combo) ==
    { m.day : m \in UNION { Range(combo[i].schedule) : i \in 1..Len(combo) } }

NamesOf(combo) == { combo[i].name : i \in 1..Len(combo) }

\* C3: the score stored with a combination of size k is k*1000, plus 500 if
\* no meeting falls on a free day, plus 200 for each section of a selected
\* course, plus 300 if every selected course appears (both bonuses are given
\* when the respective selection is empty).
C3_ScoreFormula ==
    \A k \in Positions :
        LET combo == Option(k).combo
        IN Option(k).score
               = Len(combo) * 1000
                 + (IF DaysOf(combo) \cap free_days = {} THEN 500 ELSE 0)
                 + 200 * Cardinality({ i \in 1..Len(combo) :
                                           combo[i].name \in mandatory_classes })
                 + (IF mandatory_classes \subseteq NamesOf(combo)
                    THEN 300 ELSE 0)

\* one run stored an option with every bonus and an option without the
\* free-day and all-mandatory bonuses
C3_Witness ==
    /\ mandatory_classes # {}
    /\ free_days # {}
    /\ \E k \in Positions :
           /\ DaysOf(Option(k).combo) \cap free_days = {}
           /\ mandatory_classes \subseteq NamesOf(Option(k).combo)
    /\ \E k \in Positions :
           /\ DaysOf(Option(k).combo) \cap free_days # {}
           /\ ~(mandatory_classes \subseteq NamesOf(Option(k).combo))

\* index tuples of equal length in lexicographic order
LexLess(a, b) ==
    \E i \in 1..Len(a) :
        /\ a[i] < b[i]
        /\ \A j \in 1..(i - 1) : a[j] = b[j]

\* C4: the stored options are sorted by score, highest first.
C4_SortedByScore ==
    \A k \in Positions :
        k + 1 \in Positions => Option(k).score >= Option(k + 1).score

\* the sort moved an option in front of one that was enumerated before it
C4_Witness ==
    \E i \in Positions :
        \E j \in Positions :
            /\ i < j
            /\ Option(i).score > Option(j).score
            /\ Option(i).num_classes = Option(j).num_classes
            /\ LexLess(Option(j).indices, Option(i).indices)

\* C5: among options of equal score a larger one precedes a smaller one, and
\* options of equal score and size are in the order they were enumerated in
\* (lexicographic order of the positions of their sections in the pool).
C5_TieOrder ==
    \A i \in Positions :
        \A j \in Positions :
            (i < j /\ Option(i).score = Option(j).score)
                => /\ Option(i).num_classes >= Option(j).num_classes
                   /\ Option(i).num_classes = Option(j).num_classes
                          => LexLess(Option(i).indices, Option(j).indices)

\* three options share one score
C5_Witness ==
    \E i \in Positions :
        \E j \in Positions :
            \E k \in Positions :
                /\ i < j
                /\ j < k
                /\ Option(i).score = Option(j).score
                /\ Option(j).score = Option(k).score

C7_ScoreMonotone ==
    \A i \in Positions :
        \A j \in Positions :
            (/\ Range(Option(i).indices) \subseteq Range(Option(j).indices)
             /\ Option(j).num_classes = Option(i).num_classes + 1)
                => Option(j).score > Option(i).score

\* the added section costs the larger option the free-day bonus
C7_Witness ==
    \E i \in Positions :
        \E j \in Positions :
            /\ Range(Option(i).indices) \subseteq Range(Option(j).indices)
            /\ Option(j).num_classes = Option(i).num_classes + 1
            /\ Option(i).respects_free_days
            /\ ~Option(j).respects_free_days

\* C8: an option with more sections has a strictly higher score than one with
\* fewer, sizes never increase along the list, and the first option has the
\* largest size of any enumerated valid combination.
C8_SizeDominates ==
    /\ \A i \in Positions :
           \A j \in Positions :
               Option(i).num_classes > Option(j).num_classes
                   => Option(i).score > Option(j).score
    /\ \A k \in Positions :
           k + 1 \in Positions
               => Option(k).num_classes >= Option(k + 1).num_classes
    /\ all_schedule_options # << >>
           => \A S \in ValidIndexSets(filtered_classes) :
                  Cardinality(S) <= Option(1).num_classes

\* the options of a run on more than six sections: a larger option without
\* the free-day bonus is stored with a smaller option that has it, and there
\* are options of every size up to six
C8_Witness ==
    /\ Len(filtered_classes) > MaxClasses
    /\ \E i \in Positions :
           \E j \in Positions :
               /\ Option(i).num_classes = Option(j).num_classes + 1
               /\ ~Option(i).respects_free_days
               /\ Option(j).respects_free_days
    /\ \A n \in 1..MaxClasses : \E k \in Positions : Option(k).num_classes = n

\* C1: every combination of the stored options has no two sections for which
\* has_conflict is true and no two sections with the same course name.
C1_NoSelfConflict ==
    \A k \in 1..Len(all_schedule_options) :
        LET combo == all_schedule_options[k].combo
        IN \A a \in 1..Len(combo) :
               \A b \in 1..Len(combo) :
                   a # b => /\ ~has_conflict(combo[a], combo[b])
                            /\ combo[a].name # combo[b].name

\* options of two or more sections were stored by a run whose pool held a
\* conflicting pair and a pair of sections of one course that do not conflict
C1_Witness ==
    /\ \E k \in 1..Len(all_schedule_options) :
           all_schedule_options[k].num_classes >= 2
    /\ \E i \in 1..Len(filtered_classes) :
           \E j \in 1..Len(filtered_classes) :
               /\ i # j
               /\ has_conflict(filtered_classes[i], filtered_classes[j])
    /\ \E i \in 1..Len(filtered_classes) :
           \E j \in 1..Len(filtered_classes) :
               /\ i # j
               /\ filtered_classes[i].name = filtered_classes[j].name
               /\ ~has_conflict(filtered_classes[i], filtered_classes[j])

\* C9: for the sections a run has enumerated, has_conflict(s1, s2) holds
\* exactly when a meeting of s1 and a meeting of s2 are on the same day and
\* max(start1, start2) < min(end1, end2); a meeting that ends exactly when
\* another one starts does not overlap it, and sections that meet on
\* different days only do not conflict.
C9_ConflictIffOverlap ==
    /\ \A i \in 1..Len(filtered_classes) :
           \A j \in 1..Len(filtered_classes) :
               has_conflict(filtered_classes[i], filtered_classes[j])
                   <=> \E m1 \in Range(filtered_classes[i].schedule) :
                           \E m2 \in Range(filtered_classes[j].schedule) :
                               MeetingsIntersect(m1, m2)
    /\ \A m1 \in AllMeetings :
           \A m2 \in AllMeetings :
               Touching(m1, m2)
                   => ~times_overlap(m1.start_time, m1.end_time,
                                     m2.start_time, m2.end_time)
    /\ \A i \in 1..Len(filtered_classes) :
           \A j \in 1..Len(filtered_classes) :
               (\A m1 \in Range(filtered_classes[i].schedule) :
                    \A m2 \in Range(filtered_classes[j].schedule) : m1.day # m2.day)
                   => ~has_conflict(filtered_classes[i], filtered_classes[j])

\* a stored option holds two sections with back-to-back meetings, and the run
\* that stored it also met a conflicting pair
C9_Witness ==
    /\ \E k \in 1..Len(all_schedule_options) :
           LET combo == all_schedule_options[k].combo
           IN \E a \in 1..Len(combo) :
                  \E b \in 1..Len(combo) :
                      \E m1 \in Range(combo[a].schedule) :
                          \E m2 \in Range(combo[b].schedule) :
                              a # b /\ Touching(m1, m2)
    /\ \E i \in 1..Len(filtered_classes) :
           \E j \in 1..Len(filtered_classes) :
               i # j /\ has_conflict(filtered_classes[i], filtered_classes[j])

\* C10: for the sections a run has enumerated, times_overlap gives the same
\* answer with its two meetings swapped and has_conflict gives the same
\* answer with its two sections swapped.
C10_Symmetry ==
    /\ \A m1 \in AllMeetings :
           \A m2 \in AllMeetings :
               times_overlap(m1.start_time, m1.end_time,
                             m2.start_time, m2.end_time)
                   = times_overlap(m2.start_time, m2.end_time,
                                   m1.start_time, m1.end_time)
    /\ \A i \in 1..Len(filtered_classes) :
           \A j \in 1..Len(filtered_classes) :
               has_conflict(filtered_classes[i], filtered_classes[j])
                   = has_conflict(filtered_classes[j], filtered_classes[i])

\* a run has enumerated a pool with a conflicting pair, in both orders, and
\* a pair that meets back to back
C10_Witness ==
    /\ all_schedule_options # << >>
    /\ \E i \in 1..Len(filtered_classes) :
           \E j \in 1..Len(filtered_classes) :
               /\ i < j
               /\ has_conflict(filtered_classes[i], filtered_classes[j])
               /\ has_conflict(filtered_classes[j], filtered_classes[i])
    /\ \E m1 \in AllMeetings : \E m2 \in AllMeetings : Touching(m1, m2)

\* C11 as stated: a section with a meeting does not conflict with itself.
C11_Original ==
    \A i \in 1..Len(filtered_classes) :
        Len(filtered_classes[i].schedule) >= 1
            => ~has_conflict(filtered_classes[i], filtered_classes[i])

\* C11 amended: has_conflict has no identity test: for a section a run has
\* enumerated, has_conflict(s, s) is true exactly when s has a meeting whose
\* start time is before its end time.
C11_SelfConflict ==
    \A i \in 1..Len(filtered_classes) :
        has_conflict(filtered_classes[i], filtered_classes[i])
            <=> \E m \in Range(filtered_classes[i].schedule) :
                    m.start_time < m.end_time

\* a run has enumerated a section with a meeting that starts before it ends
\* and a section none of whose meetings does
C11_Witness ==
    /\ all_schedule_options # << >>
    /\ \E i \in 1..Len(filtered_classes) :
           \E m \in Range(filtered_classes[i].schedule) :
               m.start_time < m.end_time
    /\ \E i \in 1..Len(filtered_classes) :
           /\ filtered_classes[i].schedule # << >>
           /\ \A m \in Range(filtered_classes[i].schedule) :
                  m.start_time >= m.end_time

\* the last script run failed reading the option under the cursor
Failed == Displayed = "IndexError"

NavigationButtons == { "Previous", "Next", "Go to", "First", "Last" }

\* C12: whenever options are stored the cursor is an index of the list, so
\* the option under the cursor can be read.
C12_CursorInRange ==
    all_schedule_options # << >>
        => /\ 0 <= current_schedule_index
           /\ current_schedule_index < Len(all_schedule_options)
           /\ ~Failed

\* Next was pressed on the last of three or more options, reached by
\* browsing, and the cursor is still on it
C12_Witness ==
    /\ Len(all_schedule_options) >= 3
    /\ last_event.button = "Next"
    /\ last_event.index = Len(all_schedule_options) - 1
    /\ current_schedule_index = Len(all_schedule_options) - 1

\* C13: Previous on the first option and Next on the last option leave the
\* cursor where it is; anywhere else Previous moves it down by one and Next
\* up by one.
C13_Clamping ==
    [][/\ last_event'.button = "Previous"
           => current_schedule_index'
                  = IF current_schedule_index = 0
                    THEN 0
                    ELSE current_schedule_index - 1
       /\ last_event'.button = "Next"
           => current_schedule_index'
                  = IF current_schedule_index = Len(all_schedule_options) - 1
                    THEN current_schedule_index
                    ELSE current_schedule_index + 1]_vars

\* Previous was pressed on the first of several options
C13_Witness ==
    /\ Len(all_schedule_options) >= 2
    /\ last_event.button = "Previous"
    /\ last_event.index = 0
    /\ current_schedule_index = 0

\* C14 as stated: going to an index outside the list fails and leaves the
\* cursor, going to an index of the list sets the cursor to it (the number
\* typed is the index plus one).
C14_Original ==
    last_event.button = "Go to"
        => IF last_event.number - 1 \in 0..(Len(all_schedule_options) - 1)
           THEN current_schedule_index = last_event.number - 1
           ELSE Failed /\ current_schedule_index = last_event.index

\* C14 amended: going to an index of the list sets the cursor to it; an index
\* outside the list is not taken: nothing fails, the cursor is left where it
\* was and the option under it is shown.
C14_GoTo ==
    last_event.button = "Go to"
        => IF last_event.number - 1 \in 0..(Len(all_schedule_options) - 1)
           THEN current_schedule_index = last_event.number - 1
           ELSE /\ ~Failed
                /\ Displayed = "Schedule"
                /\ current_schedule_index = last_event.index

\* a number past the last option was typed with the cursor off the first
\* option
C14_Witness ==
    /\ last_event.button = "Go to"
    /\ last_event.number > Len(all_schedule_options)
    /\ last_event.index > 0
    /\ current_schedule_index = last_event.index

\* C15 as stated: with no option stored, reading the current option fails.
C15_Original ==
    (last_event.button # "None" /\ all_schedule_options = << >>) => Failed

\* C15 amended: with no option stored the current option is not read and
\* nothing fails: the tab shows its warning or nothing below the button; an
\* option is shown exactly when the pool and the options are not empty.
C15_NoReadWhenEmpty ==
    /\ ~Failed
    /\ all_schedule_options = << >>
           => Displayed \in { "NoClassesWarning", "Nothing" }
    /\ Displayed = "Schedule"
           <=> (classes_data # << >> /\ all_schedule_options # << >>)

\* a class was registered and no option is stored: nothing is shown
C15_Witness ==
    /\ last_event.button = "Register class"
    /\ classes_data # << >>
    /\ all_schedule_options = << >>
    /\ Displayed = "Nothing"

\* C16: a run that stores options sets the cursor to 0 in the same step.
C16_CursorReset ==
    [][/\ all_schedule_options' # all_schedule_options
           => current_schedule_index' = 0
       /\ (last_event'.button = "Generate" /\ all_schedule_options' # << >>)
           => current_schedule_index' = 0]_vars

\* a run stored fewer options than the cursor of the options before it
C16_Witness ==
    /\ last_event.button = "Generate"
    /\ all_schedule_options # << >>
    /\ last_event.index >= Len(all_schedule_options)
    /\ current_schedule_index = 0

\* C17: First, Previous, Next, Last and Go to leave the stored options, the
\* pool and the record of the last run as they are.
C17_ReadOnly ==
    [][last_event'.button \in NavigationButtons
           => /\ all_schedule_options' = all_schedule_options
              /\ classes_data' = classes_data
              /\ run' = run]_vars

\* Last moved the cursor over three or more options
C17_Witness ==
    /\ last_event.button = "Last"
    /\ Len(all_schedule_options) >= 3
    /\ last_event.index = 0
    /\ current_schedule_index = Len(all_schedule_options) - 1

\* C18 as stated: after a run on an empty pool no option is stored.
C18_Original ==
    (last_event.button = "Generate" /\ classes_data = << >>)
        => all_schedule_options = << >>

\* C20 as stated: every meeting of every class in the pool starts before it
\* ends.
C20_Original ==
    \A i \in 1..Len(classes_data) :
        \A m \in Range(classes_data[i].schedule) :
            parse_time(m.start_time) < parse_time(m.end_time)

\* the subsets of the enumerated pool that are candidates of a run
Candidates ==
    { S \in SUBSET (1..Len(filtered_classes)) :
          Cardinality(S) >= 1 /\ Cardinality(S) <= MaxClasses }

\* the two members of the candidate a conflict entry was appended for
Members(entry) ==
    { entry.indices[entry.pair[1]], entry.indices[entry.pair[2]] }

\* the entries of conflict_details for two members of a candidate
EntriesFor(S, a, b) ==
    { x \in 1..Len(conflict_details) :
          /\ Range(conflict_details[x].indices) = S
          /\ Members(conflict_details[x]) = { a, b } }

\* C21: the conflict list is complete.  For a candidate rejected for a time
\* conflict, conflict_details holds one entry for every unordered pair of its
\* sections for which has_conflict is true and none for any other pair, and
\* an entry names the two sections; the same holds of conflicts_found for
\* the classes of a typed combination.
C21_ConflictsComplete ==
    /\ \A S \in Candidates :
           \A a \in S :
               \A b \in S :
                   a < b =>
                       Cardinality(EntriesFor(S, a, b))
                           = IF has_conflict(filtered_classes[a],
                                             filtered_classes[b])
                             THEN 1 ELSE 0
    /\ \A x \in 1..Len(conflict_details) :
           LET entry == conflict_details[x]
           IN /\ Range(entry.indices) \in Candidates
              /\ Cardinality(Members(entry)) = 2
              /\ entry.text
                     = ConflictText(filtered_classes[entry.indices[entry.pair[1]]],
                                    filtered_classes[entry.indices[entry.pair[2]]])
    /\ \A a \in 1..Len(test_classes) :
           \A b \in 1..Len(test_classes) :
               a < b =>
                   Cardinality({ x \in 1..Len(conflicts_found) :
                                     conflicts_found[x].pair = << a, b >> })
                       = IF has_conflict(test_classes[a], test_classes[b])
                         THEN 1 ELSE 0
    /\ \A x \in 1..Len(conflicts_found) :
           LET entry == conflicts_found[x]
           IN /\ entry.pair[1] < entry.pair[2]
              /\ entry.pair[2] <= Len(test_classes)
              /\ entry.text = ConflictText(test_classes[entry.pair[1]],
                                           test_classes[entry.pair[2]])

\* a run rejected a candidate of three sections with two conflicting pairs
\* and one pair that does not conflict, and a typed combination of three
\* classes was found to have two conflicts
C21_Witness ==
    /\ \E x \in 1..Len(conflict_details) :
           \E y \in 1..Len(conflict_details) :
               /\ x # y
               /\ conflict_details[x].indices = conflict_details[y].indices
               /\ Len(conflict_details[x].indices) = 3
               /\ \E a \in Range(conflict_details[x].indices) :
                      \E b \in Range(conflict_details[x].indices) :
                          /\ a < b
                          /\ ~has_conflict(filtered_classes[a],
                                           filtered_classes[b])
    /\ Len(test_classes) = 3
    /\ Len(conflicts_found) = 2

\* the meetings of a list of classes
MeetingsOf(classes) ==
    UNION { Range(classes[i].schedule) : i \in 1..Len(classes) }

\* C22 as stated: the time-slot table of the displayed combination is the
\* set of distinct (day, start, end) of the meetings of its sections: every
\* row is the time of a meeting of the combination, and there are as many
\* rows as distinct (day, start, end) among those meetings.
C22_Original ==
    Displayed = "Schedule" =>
        /\ \A slot \in time_slots :
               \E m \in MeetingsOf(current_combo) :
                   slot = << m.start_time, m.end_time >>
        /\ Cardinality(time_slots)
               = Cardinality({ << m.day, m.start_time, m.end_time >> :
                                   m \in MeetingsOf(current_combo) })

\* C22: the time-slot table derived for a displayed combination is exactly
\* the set of distinct (start, end) of the meetings of all sections of the
\* current pool: a row for every meeting of the pool, in or outside the
\* combination, no other row, and one row for equal times on different days.
C22_TimeSlots ==
    Displayed = "Schedule" =>
        /\ \A m \in MeetingsOf(parsed_classes(classes_data)) :
               << m.start_time, m.end_time >> \in time_slots
        /\ \A slot \in time_slots :
               \E m \in MeetingsOf(parsed_classes(classes_data)) :
                   slot = << m.start_time, m.end_time >>
        /\ \A m1 \in MeetingsOf(parsed_classes(classes_data)) :
               \A m2 \in MeetingsOf(parsed_classes(classes_data)) :
                   (m1.start_time = m2.start_time /\ m1.end_time = m2.end_time)
                       => Cardinality({ slot \in time_slots :
                                            \/ slot = << m1.start_time, m1.end_time >>
                                            \/ slot = << m2.start_time, m2.end_time >> })
                              = 1

\* the displayed combination meets at the same time on two days, and the
\* table has a row that is the time of none of its meetings
C22_Witness ==
    /\ Displayed = "Schedule"
    /\ \E m1 \in MeetingsOf(current_combo) :
           \E m2 \in MeetingsOf(current_combo) :
               /\ m1.day # m2.day
               /\ m1.start_time = m2.start_time
               /\ m1.end_time = m2.end_time
    /\ \E slot \in time_slots :
           \A m \in MeetingsOf(current_combo) :
               slot # << m.start_time, m.end_time >>

\* C23: each stored result is a tuple (score, size, combination,
\* satisfies_mandatory, satisfies_free_days), one per valid combination, in
\* which size is the number of sections, satisfies_mandatory is true iff
\* every selected course appears in the combination, satisfies_free_days is
\* true iff no meeting is on a free day, and the score holds the bonus 300
\* iff satisfies_mandatory and the bonus 500 iff satisfies_free_days.
C23_ScoredResult ==
    /\ \A S \in ValidIndexSets(filtered_classes) :
           all_schedule_options # << >>
               => Cardinality({ k \in Positions :
                                    Range(Option(k).indices) = S }) = 1
    /\ \A k \in Positions :
           LET combo == Option(k).combo
               selected == Cardinality({ i \in 1..Len(combo) :
                                             combo[i].name \in mandatory_classes })
           IN /\ DOMAIN Option(k)
                     = { "score", "num_classes", "combo", "has_all_mandatory",
                         "respects_free_days", "indices" }
              /\ Option(k).num_classes = Len(combo)
              /\ Option(k).has_all_mandatory
                     <=> (mandatory_classes \subseteq NamesOf(combo))
              /\ Option(k).respects_free_days
                     <=> (DaysOf(combo) \cap free_days = {})
              /\ Option(k).score - 1000 * Len(combo) - 200 * selected
                     = (IF Option(k).has_all_mandatory THEN 300 ELSE 0)
                       + (IF Option(k).respects_free_days THEN 500 ELSE 0)

\* one run stored a result that has every selected course but meets on a
\* free day, and a result that keeps the free days but lacks a selected course
C23_Witness ==
    /\ \E k \in Positions :
           Option(k).has_all_mandatory /\ ~Option(k).respects_free_days
    /\ \E k \in Positions :
           ~Option(k).has_all_mandatory /\ Option(k).respects_free_days

\* the list of the last run as it was before the sort
Appended(x) == all_combinations_with_score[x]

\* C24: before the sort, every valid combination of a size is in the list
\* before any valid combination of a smaller size, no size is above
\* min(6, |sections|), and within one size the combinations stand in
\* lexicographic order of the input indices of their sections.
C24_EnumerationOrder ==
    /\ \A x \in 1..Len(all_combinations_with_score) :
           /\ Appended(x).num_classes <= Min(6, Len(filtered_classes))
           /\ Appended(x).num_classes >= 1
           /\ \A y \in 1..Len(all_combinations_with_score) :
                  x < y =>
                      \/ Appended(x).num_classes > Appended(y).num_classes
                      \/ /\ Appended(x).num_classes = Appended(y).num_classes
                         /\ LexLess(Appended(x).indices, Appended(y).indices)
    /\ { Range(Appended(x).indices) :
            x \in 1..Len(all_combinations_with_score) }
           = IF all_combinations_with_score = << >>
             THEN {}
             ELSE ValidIndexSets(filtered_classes)

\* a run appended combinations of three sizes, several of one size, in an
\* order that the sort then changed
C24_Witness ==
    /\ Cardinality({ Appended(x).num_classes :
                         x \in 1..Len(all_combinations_with_score) }) >= 3
    /\ \E x \in 1..Len(all_combinations_with_score) :
           \E y \in 1..Len(all_combinations_with_score) :
               x # y /\ Appended(x).num_classes = Appended(y).num_classes
    /\ all_schedule_options # all_combinations_with_score

\* C26: for a non-empty pool and any selections a run stores a non-empty
\* list that holds every single-section combination of the filtered pool;
\* "No valid schedules found" is never reported.
C26_SinglesAlwaysFound ==
    /\ message # "No valid schedules found"
    /\ (last_event.button = "Generate" /\ classes_data # << >>)
           => /\ message = "Generated"
              /\ all_schedule_options # << >>
              /\ filtered_classes # << >>
              /\ \A i \in 1..Len(filtered_classes) :
                     \E k \in Positions :
                         /\ Option(k).indices = << i >>
                         /\ Option(k).combo = << filtered_classes[i] >>

\* a run on a pool of several sections in which every candidate of two or
\* more sections was rejected
C26_Witness ==
    /\ message = "Generated"
    /\ Len(filtered_classes) >= 2
    /\ \A k \in Positions : Option(k).num_classes = 1

\* C28: with a non-empty course selection the enumerated pool is the
\* sections of the selected courses: every section of every stored
\* combination belongs to a selected course and the per-section bonus in its
\* score is 200 times its size; with an empty selection the whole pool is
\* enumerated.
C28_MandatoryFilter ==
    last_event.button = "Generate" =>
        /\ mandatory_classes # {} =>
               /\ filtered_classes
                      = SelectSeq(parsed_classes(classes_data),
                                  LAMBDA cls : cls.name \in mandatory_classes)
               /\ \A k \in Positions :
                      /\ \A i \in 1..Len(Option(k).combo) :
                             Option(k).combo[i].name \in mandatory_classes
                      /\ Option(k).score
                             = 1000 * Option(k).num_classes
                               + 200 * Option(k).num_classes
                               + (IF Option(k).has_all_mandatory THEN 300 ELSE 0)
                               + (IF Option(k).respects_free_days THEN 500 ELSE 0)
        /\ mandatory_classes = {} =>
               filtered_classes = parsed_classes(classes_data)

\* a run with a selection that leaves a section of the pool out and stores a
\* combination of two sections
C28_Witness ==
    /\ last_event.button = "Generate"
    /\ mandatory_classes # {}
    /\ \E i \in 1..Len(classes_data) : classes_data[i].name \notin mandatory_classes
    /\ \E k \in Positions : Option(k).num_classes = 2

\* C27 as stated: the stored options never go stale: whenever the browser
\* is drawn, every section of every stored combination is a member of the
\* current pool.
C27_Original ==
    BrowserShown =>
        \A k \in Positions :
            \A i \in 1..Len(Option(k).combo) :
                Option(k).combo[i] \in Range(parsed_classes(classes_data))

\* the tabs, and with them generation and browsing, are drawn
MainTabsRendered == Screen = "Main tabs"

TabButtons ==
    { "Register class", "Delete classes", "Generate", "Previous", "Next",
      "Go to", "First", "Last", "Check This Specific Combination" }

\* C29: the tabs are drawn only when welcome_seen, auth_checked and
\* term_selected are all true, and a class is registered or a run made only
\* then; banner_credentials is not None only after a header parse that
\* succeeded; and when the tabs are drawn with banner_credentials not None
\* a term has been set.
C29_ScreenGating ==
    /\ MainTabsRendered => (welcome_seen /\ auth_checked /\ term_selected)
    /\ (classes_data # << >> \/ message # "None") => welcome_seen
    /\ last_event.button \in TabButtons
           => (welcome_seen /\ auth_checked /\ term_selected)
    /\ banner_credentials # None
           => /\ parse_succeeded
              /\ DOMAIN banner_credentials.cookies # {}
              /\ banner_credentials.sync_token # NoToken
    /\ (MainTabsRendered /\ banner_credentials # None)
           => selected_term \in AvailableTerms \cup { DefaultTerm }

\* the tabs are drawn with credentials and a confirmed term after the user
\* had skipped the authentication, registered a class and chosen
\* "Authenticate Now"
C29_Witness ==
    /\ MainTabsRendered
    /\ banner_credentials # None
    /\ selected_term = "202610"
    /\ classes_data # << >>
    /\ last_event.button = "Confirm Selection"

\* the requests of the three kinds, in the order sent
Drops == SelectSeq(requests, LAMBDA r : r.request = "drop_classes")

Adds == SelectSeq(requests, LAMBDA r : r.request = "add_class_to_cart")

Submits == SelectSeq(requests, LAMBDA r : r.request = "submit_registration")

IsRegistration(r) ==
    r.request \in { "add_class_to_cart", "submit_registration" }

\* the classes of the combination that have a CRN
WithCrn == SelectSeq(schedule_combo, LAMBDA cls : crn(cls) # "")

\* the CRNs whose first drop failed
FirstDropFailed ==
    SelectSeq(registration_models,
              LAMBDA number :
                  \E j \in 1..Min(Len(requests), Len(registration_models)) :
                      /\ requests[j].crn = number
                      /\ requests[j].result = "failed")

\* C25: the three phases of apply_schedule_to_banner.  One drop request per
\* registered CRN, in order, comes before any registration request; the
\* classes of the combination are then added in combination order, each
\* added class submitted before the next is touched; the drops that failed
\* are retried only after every class of the combination was attempted,
\* once each.
C25_ThreePhases ==
    LET n == Len(registration_models)
    IN /\ \A j \in 1..Len(requests) :
              j <= n => /\ requests[j].request = "drop_classes"
                        /\ requests[j].crn = registration_models[j]
       /\ \A j \in 1..Len(requests) :
              IsRegistration(requests[j]) =>
                  /\ j > n
                  /\ \A k \in 1..(j - 1) :
                         k > n => IsRegistration(requests[k])
       /\ Len(Adds) <= Len(WithCrn)
       /\ \A i \in 1..Len(Adds) : Adds[i].crn = crn(WithCrn[i])
       /\ \A j \in 1..Len(requests) :
              /\ requests[j].request = "submit_registration"
                     => /\ j > 1
                        /\ requests[j - 1].request = "add_class_to_cart"
                        /\ requests[j - 1].crn = requests[j].crn
                        /\ requests[j - 1].result = "added"
              /\ (requests[j].request = "add_class_to_cart"
                      /\ requests[j].result = "added")
                     => IF j = Len(requests)
                        THEN step = "Submit"
                        ELSE /\ requests[j + 1].request = "submit_registration"
                             /\ requests[j + 1].crn = requests[j].crn
       /\ \A j \in 1..Len(requests) :
              (j > n /\ requests[j].request = "drop_classes")
                  => /\ Len(Adds) = Len(WithCrn)
                     /\ registered_count + Len(failed_classes)
                            = Len(schedule_combo)
       /\ Len(Drops) <= n + Len(FirstDropFailed)
       /\ \A i \in 1..Len(Drops) :
              i > n => Drops[i].crn = FirstDropFailed[i - n]
       /\ step = "Returned"
              => /\ Len(Drops) = n + Len(FirstDropFailed)
                 /\ Len(Adds) = Len(WithCrn)

\* a call that returned after two drops of which one failed and was retried,
\* and three classes of which one could not be added and two were submitted
C25_Witness ==
    /\ step = "Returned"
    /\ Len(registration_models) = 2
    /\ Len(Drops) = 3
    /\ Len(Adds) = 3
    /\ Len(Submits) = 2

\* C30 as stated: the call returns True iff every class of the combination
\* was registered, False when a class failed, and every class is counted once
\* as registered or failed.
C30_Original ==
    step = "Returned" =>
        /\ returned = "True" <=> registered_count = Len(schedule_combo)
        /\ failed_classes # << >> => returned = "False"
        /\ registered_count + Len(failed_classes) = Len(schedule_combo)

\* the classes that failed: no CRN, not added, added without a model, or
\* not submitted
FailedOf(cls) ==
    \/ crn(cls) = ""
    \/ \E j \in 1..Len(requests) :
           /\ requests[j].crn = crn(cls)
           /\ IsRegistration(requests[j])
           /\ requests[j].result \in { "failed", "no model" }

\* C30: the call returns True iff at least one class of the combination was
\* registered and False iff none was; every class of the combination is
\* counted once, as registered or as failed.
C30_ReturnValue ==
    step = "Returned" =>
        /\ returned = "True"
               <=> \E j \in 1..Len(requests) :
                       /\ requests[j].request = "submit_registration"
                       /\ requests[j].result = "success"
        /\ returned = "False" <=> registered_count = 0
        /\ returned \in { "True", "False" }
        /\ registered_count + Len(failed_classes) = Len(schedule_combo)
        /\ registered_count
               = Len(SelectSeq(Submits, LAMBDA r : r.result = "success"))
        /\ failed_classes
               = [i \in 1..Len(SelectSeq(schedule_combo, FailedOf)) |->
                      FailedLabel(SelectSeq(schedule_combo, FailedOf)[i])]

\* a call that returned True with one class registered and one failed
C30_Witness ==
    /\ step = "Returned"
    /\ returned = "True"
    /\ registered_count = 1
    /\ Len(failed_classes) >= 1

====
